---- MODULE Spec2Model ----
(***************************************************************************)
(* Verification model of market-api: the CSV time-series store             *)
(* (DataStorageService.update_csv_file, MarketService._save_daily_data,    *)
(* SelectedIndicatorsService.save_data), the collectors and the change     *)
(* engine of EnhancedMarketService.                                        *)
(*                                                                         *)
(* Numbers are fixed-point integers in units of 1/Scale (four decimals).   *)
(* A timestamp is an integer tick; its calendar date is ts \div            *)
(* TicksPerDay, which is what strftime('%Y-%m-%d') keeps of a timestamp.   *)
(***************************************************************************)
EXTENDS Integers, Sequences, FiniteSets, TLC

(* ------------------------------ bounds --------------------------------- *)
MaxDate == 2        \* calendar dates 1..MaxDate
TicksPerDay == 2    \* distinct clock readings inside one calendar date
MaxOps == 3         \* service calls in one behaviour
MaxSelectedDate == 3  \* calendar dates of the selected dataset, one more
                      \* than MaxDate so that stored dates can have a gap

Scale == 10000      \* fixed-point unit: 1.0 is Scale

Clock == TicksPerDay..(MaxDate * TicksPerDay + TicksPerDay - 1)
SelectedClock == TicksPerDay..(MaxSelectedDate * TicksPerDay + TicksPerDay - 1)
DateOf(ts) == ts \div TicksPerDay

\* A dict and a row list as explicit tables (evaluated once, not at every
\* lookup).
Dict(f) == f @@ <<>>
Rows(s) == <<>> \o s

(* ------------------------------ values --------------------------------- *)
\* A Python/pandas scalar: a number, None, float NaN (an empty CSV cell) or text.
Num(x) == [t |-> "num", n |-> x, s |-> ""]
None == [t |-> "none", n |-> 0, s |-> ""]
NaN == [t |-> "nan", n |-> 0, s |-> ""]
Str(x) == [t |-> "str", n |-> 0, s |-> x]
\* a Python int too large to convert to a float, such as 10 ** 400
Big == [t |-> "big", n |-> 0, s |-> ""]

IsNum(v) == v.t = "num"
IsNA(v) == v.t \in {"none", "nan"}          \* pd.isna

\* round half to even of x to a multiple of q: round(x, k), Series.round(k)
RoundTo(x, q) ==
  LET r == x % q
      lo == x - r
  IN  IF 2 * r < q THEN lo
      ELSE IF 2 * r > q THEN lo + q
      ELSE IF (lo \div q) % 2 = 0 THEN lo ELSE lo + q

Round2(x) == RoundTo(x, Scale \div 100)
Round1(x) == RoundTo(x, Scale \div 10)

\* round half to even of the rational a / b, b > 0
RoundDiv(a, b) ==
  LET q == a \div b
      r == a % b
  IN  IF 2 * r < b THEN q
      ELSE IF 2 * r > b THEN q + 1
      ELSE IF q % 2 = 0 THEN q ELSE q + 1

Abs(x) == IF x < 0 THEN -x ELSE x

(* --------------------------- data provider ----------------------------- *)
\* ticker.history(period='1d'): a frame with a last Close, an empty frame,
\* or an exception.
Close(x) == [k |-> "close", v |-> x]
Empty == [k |-> "empty", v |-> 0]
Raise == [k |-> "raise", v |-> 0]

(* ------------------------------ tables --------------------------------- *)
\* A CSV file: its metric columns (besides date and timestamp) and its rows
\* in file order.  A file that does not exist has no rows.
NoFile == [cols |-> {}, rows |-> <<>>]
Exists(f) == Len(f.rows) > 0

MkRow(d, ts, cells) == [date |-> d, ts |-> ts, c |-> cells]

\* pd.DataFrame([new_data]) for a dict with its date and timestamp
Frame(d, ts, cells) == [cols |-> DOMAIN cells, rows |-> <<MkRow(d, ts, cells)>>]

DatesOf(f) == {f.rows[i].date : i \in 1..Len(f.rows)}

\* f with the cell of row i and column k replaced by cell[i, k]
MapCells(f, cell) ==
  [f EXCEPT !.rows = Rows([i \in 1..Len(f.rows) |->
     [f.rows[i] EXCEPT !.c = Dict([k \in f.cols |-> cell[i, k]])]])]

\* DataFrame.fillna(0)
FillNa(f) ==
  MapCells(f, [i \in 1..Len(f.rows), k \in f.cols |->
                 IF IsNA(f.rows[i].c[k]) THEN Num(0) ELSE f.rows[i].c[k]])

\* df[df[date] != d]
DropDate(rows, d) == SelectSeq(rows, LAMBDA r : r.date # d)

\* pd.concat([new_df, existing_df], ignore_index=True): a row has NaN in a
\* column it has no value for
Concat(new, existing) ==
  LET cols == new.cols \cup existing.cols
      rows == new.rows \o existing.rows
  IN  [cols |-> cols,
       rows |-> Rows([i \in 1..Len(rows) |->
          [rows[i] EXCEPT !.c = Dict([k \in cols |->
             IF k \in DOMAIN rows[i].c THEN rows[i].c[k] ELSE NaN])]])]

\* the position of row i when rows are put in descending key order
RankDesc(rows, key, i) ==
  1 + Cardinality({j \in 1..Len(rows) : rows[j][key] > rows[i][key]})
    + Cardinality({j \in 1..(i - 1) : rows[j][key] = rows[i][key]})

\* df.sort_values(key, ascending=True) (the mutant of SortDescBy)
SortAscBy(rows, key) ==
  Rows([p \in 1..Len(rows) |->
     rows[CHOOSE i \in 1..Len(rows) : RankDesc(rows, key, i) = Len(rows) + 1 - p]])

\* df.sort_values(key, ascending=False)
SortDescBy(rows, key) ==
  Rows([p \in 1..Len(rows) |->
     rows[CHOOSE i \in 1..Len(rows) : RankDesc(rows, key, i) = p]])

\* select_dtypes(include=[np.number]): the columns none of whose cells is
\* text or None
NumericCols(f) ==
  {k \in f.cols : \A i \in 1..Len(f.rows) : f.rows[i].c[k].t \in {"num", "nan"}}

\* df[numeric_columns] = df[numeric_columns].round(2)
RoundCols(f) ==
  LET nc == NumericCols(f)
  IN  MapCells(f, [i \in 1..Len(f.rows), k \in f.cols |->
                     IF k \in nc /\ IsNum(f.rows[i].c[k])
                     THEN Num(Round2(f.rows[i].c[k].n)) ELSE f.rows[i].c[k]])

\* the text of a number written into a column that holds text; the only
\* number that gets into such a column is the 0 of fillna
NumText(n) == IF n = 0 THEN "0" ELSE "number"

\* df.to_csv then pd.read_csv: None and NaN are written as empty cells and
\* read back as NaN; in a column that holds text a number is read as text
ToCsv(f) ==
  LET textcols == {k \in f.cols : \E j \in 1..Len(f.rows) : f.rows[j].c[k].t = "str"}
  IN  MapCells(f, [i \in 1..Len(f.rows), k \in f.cols |->
                     IF IsNA(f.rows[i].c[k]) THEN NaN
                     ELSE IF IsNum(f.rows[i].c[k]) /\ k \in textcols
                          THEN Str(NumText(f.rows[i].c[k].n))
                          ELSE f.rows[i].c[k]])

(* --------------------------- store operations -------------------------- *)
\* update_csv_file without line 57 (mutant): the same-date row is kept
update_csv_file_keep(d, ts, cells, f) ==
  LET new_df == FillNa(Frame(d, ts, cells))
      existing == FillNa(f)
      cat == Concat(new_df, existing)
      sorted == [cat EXCEPT !.rows = SortDescBy(cat.rows, "date")]
  IN  IF Exists(f) THEN ToCsv(RoundCols(sorted)) ELSE ToCsv(RoundCols(new_df))

\* DataStorageService.update_csv_file(new_data, file_path): the file after
\* the call, for new_data = {date: d, timestamp: ts, **cells}
update_csv_file(d, ts, cells, f) ==
  LET new_df == FillNa(Frame(d, ts, cells))
      existing == FillNa(f)
      cat == Concat(new_df, [existing EXCEPT !.rows = DropDate(existing.rows, d)])
      sorted == [cat EXCEPT !.rows = SortDescBy(cat.rows, "date")]
  IN  IF Exists(f) THEN ToCsv(RoundCols(sorted)) ELSE ToCsv(RoundCols(new_df))

\* MarketService._save_daily_data, one of its two files: the same-date row
\* is dropped and the new row is put on top; nothing is sorted
save_daily_file(d, ts, cells, f) ==
  LET new_df == Frame(d, ts, cells)
      kept == IF d \in DatesOf(f) THEN DropDate(f.rows, d) ELSE f.rows
      updated == Concat(new_df, [f EXCEPT !.rows = kept])
  IN  IF Exists(f) THEN ToCsv(updated) ELSE ToCsv(new_df)

\* pd.to_numeric(col, errors='coerce').round(1) on one cell
ToNumeric1(v) == IF IsNum(v) THEN Num(Round1(v.n)) ELSE NaN

\* save_data filling the empty cells of the stored rows with 0, as
\* update_csv_file does (mutant)
save_data_file_fillna(ts, cells, f) ==
  LET new_df == Frame(DateOf(ts), ts, Dict([k \in DOMAIN cells |-> ToNumeric1(cells[k])]))
      existing == FillNa(MapCells(f, [i \in 1..Len(f.rows), k \in f.cols |->
                                 IF k \in DOMAIN cells THEN ToNumeric1(f.rows[i].c[k])
                                 ELSE f.rows[i].c[k]]))
      kept == IF DateOf(ts) \in DatesOf(existing)
              THEN DropDate(existing.rows, DateOf(ts)) ELSE existing.rows
      cat == Concat(new_df, [existing EXCEPT !.rows = kept])
      sorted == [cat EXCEPT !.rows = SortDescBy(cat.rows, "date")]
  IN  IF Exists(f)
      THEN IF DOMAIN cells \subseteq f.cols THEN ToCsv(sorted) ELSE f
      ELSE ToCsv(new_df)

\* SelectedIndicatorsService.save_data up to to_csv (line 93): the file
\* written; existing_df[col] raises KeyError before anything is written when
\* the stored table lacks a column of the data
save_data_file(ts, cells, f) ==
  LET new_df == Frame(DateOf(ts), ts, Dict([k \in DOMAIN cells |-> ToNumeric1(cells[k])]))
      existing == MapCells(f, [i \in 1..Len(f.rows), k \in f.cols |->
                                 IF k \in DOMAIN cells THEN ToNumeric1(f.rows[i].c[k])
                                 ELSE f.rows[i].c[k]])
      kept == IF DateOf(ts) \in DatesOf(existing)
              THEN DropDate(existing.rows, DateOf(ts)) ELSE existing.rows
      cat == Concat(new_df, [existing EXCEPT !.rows = kept])
      sorted == [cat EXCEPT !.rows = SortDescBy(cat.rows, "date")]
  IN  IF Exists(f)
      THEN IF DOMAIN cells \subseteq f.cols THEN ToCsv(sorted) ELSE f
      ELSE ToCsv(new_df)

(* ------------------------------ catalogue ------------------------------ *)
\* The catalogue, cut down to two currency pairs and one metric of the other
\* categories; global_indices and crypto are left without a metric.
currency_pairs == {"USD/KRW", "EUR/KRW"}
indices == {"KOSPI"}
global_indices == {}
commodities == {"GOLD"}
bonds == {"US_10Y"}
volatility == {"VIX"}
crypto == {}
indicators == {"USD/KRW", "VIX"}          \* SelectedIndicatorsService

Categories ==
  {"exchange_rates", "local_indices", "global_indices", "commodities",
   "bonds", "volatility", "crypto"}

Symbols(cat) ==
  CASE cat = "exchange_rates" -> currency_pairs
    [] cat = "local_indices" -> indices
    [] cat = "global_indices" -> global_indices
    [] cat = "commodities" -> commodities
    [] cat = "bonds" -> bonds
    [] cat = "volatility" -> volatility
    [] cat = "crypto" -> crypto

Metrics == UNION {Symbols(cat) : cat \in Categories}

(* ------------------------------ collector ------------------------------ *)
\* _collect_data without line 81 (mutant): a metric whose provider call
\* raises is left out of the results
_collect_data_drop(symbols, ans) ==
  Dict([n \in {m \in symbols : ans[m].k = "close"} |-> Num(Round2(ans[n].v))])

\* EnhancedMarketService._collect_data(symbols) under the provider answers ans
_collect_data(symbols, ans) ==
  Dict([n \in {m \in symbols : ans[m] # Empty} |->
          IF ans[n] = Raise THEN None ELSE Num(Round2(ans[n].v))])

\* the collection loops of MarketService.get_market_data (lines 37-48):
\* raised when a provider call raises, for there is no try inside the loop
collect_unguarded(symbols, ans) ==
  [raised |-> \E n \in symbols : ans[n] = Raise,
   results |-> Dict([n \in {m \in symbols : ans[m].k = "close"} |->
                       Num(Round2(ans[n].v))])]

\* the loop of SelectedIndicatorsService.collect_current_data (lines 44-54)
collect_selected(symbols, ans) ==
  Dict([n \in symbols |-> IF ans[n].k = "close" THEN Num(Round1(ans[n].v)) ELSE None])

(* --------------------------- derived indicators ------------------------ *)
\* dict.get(key)
Get(dict, key) == IF key \in DOMAIN dict THEN dict[key] ELSE None

\* the truth value of a Python scalar: None, 0 and '' are false
Truthy(v) == ~(v.t = "none" \/ (v.t = "num" /\ v.n = 0) \/ (v.t = "str" /\ v.s = ""))

\* EnhancedMarketService._calculate_correlation: round(x*y / (|x|*|y|), 4),
\* 0 when the division raises
_calculate_correlation(x, y) ==
  IF x = 0 \/ y = 0 THEN Num(0)
  ELSE Num(((x * y) \div (Abs(x) * Abs(y))) * Scale)

\* _calculate_risk_level with the cutoffs in the lower label (mutant)
_calculate_risk_level_le(vix) ==
  IF vix <= 15 * Scale THEN "LOW"
  ELSE IF vix <= 25 * Scale THEN "MODERATE"
  ELSE IF vix <= 35 * Scale THEN "HIGH"
  ELSE "VERY HIGH"

\* EnhancedMarketService._calculate_risk_level
_calculate_risk_level(vix) ==
  IF vix < 15 * Scale THEN "LOW"
  ELSE IF vix < 25 * Scale THEN "MODERATE"
  ELSE IF vix < 35 * Scale THEN "HIGH"
  ELSE "VERY HIGH"

RECURSIVE SumVals(_, _)
SumVals(dict, keys) ==
  IF keys = {} THEN 0
  ELSE LET k == CHOOSE x \in keys : TRUE
       IN  dict[k].n + SumVals(dict, keys \ {k})

DerivedNames == {"global_correlation", "gold_dollar_ratio", "risk_level", "commodity_index"}
DerivedCols == {"derived_" \o k : k \in DerivedNames}

\* column.replace('derived_', '') for a column that starts with 'derived_'
StripDerived(col) ==
  IF col \in DerivedCols THEN CHOOSE k \in DerivedNames : "derived_" \o k = col ELSE col

\* EnhancedMarketService._calculate_derived_indicators(data)
_calculate_derived_indicators(data) ==
  LET kospi == Get(data["local_indices"], "KOSPI")
      snp == Get(data["global_indices"], "S&P500")
      gold == Get(data["commodities"], "GOLD")
      usd == Get(data["exchange_rates"], "USD/KRW")
      vix == Get(data["volatility"], "VIX")
      commodity_prices == {k \in DOMAIN data["commodities"] : data["commodities"][k] # None}
      computed == {k \in DerivedNames :
                     CASE k = "global_correlation" -> Truthy(kospi) /\ Truthy(snp)
                       [] k = "gold_dollar_ratio" -> Truthy(gold) /\ Truthy(usd)
                       [] k = "risk_level" -> Truthy(vix)
                       [] k = "commodity_index" -> commodity_prices # {}}
  IN  Dict([k \in computed |->
        CASE k = "global_correlation" -> _calculate_correlation(kospi.n, snp.n)
          [] k = "gold_dollar_ratio" ->
               Num((IF usd.n < 0 THEN -1 ELSE 1) * RoundDiv(gold.n * Scale, Abs(usd.n)))
          [] k = "risk_level" -> Str(_calculate_risk_level(vix.n))
          [] k = "commodity_index" ->
               Num(RoundDiv(SumVals(data["commodities"], commodity_prices),
                            Cardinality(commodity_prices) * (Scale \div 100))
                   * (Scale \div 100))])

(* ----------------------------- change engine --------------------------- *)
\* isinstance(v, (int, float)): a number or the float NaN
IsNumber(v) == v.t \in {"num", "nan", "big"}

\* current_value - previous_value raises OverflowError: one operand is an int
\* too large for a float and the other one is a float
Overflows(cv, pv) == (cv.t = "big") # (pv.t = "big")

Direction(delta) == IF delta > 0 THEN "UP" ELSE IF delta < 0 THEN "DOWN" ELSE "UNCHANGED"

\* round(v, 2) of a float that may be NaN
RoundVal(v) == IF IsNum(v) THEN Num(Round2(v.n)) ELSE v

\* the percentage record of _calculate_changes (lines 493-500); every
\* comparison with NaN is false, so a NaN change has direction UNCHANGED
PctRecord(cv, pv) ==
  IF cv.t = "nan" \/ pv.t = "nan"
  THEN [current |-> RoundVal(cv), previous |-> RoundVal(pv), change_pct |-> NaN,
        change_value |-> NaN, direction |-> Str("UNCHANGED")]
  ELSE [current |-> RoundVal(cv), previous |-> RoundVal(pv),
        change_pct |-> Num(RoundDiv((cv.n - pv.n) * 100 * 100, Abs(pv.n)) * (Scale \div 100)),
        change_value |-> Num(Round2(cv.n - pv.n)),
        direction |-> Str(Direction(cv.n - pv.n))]

\* the absolute record with the direction of the rounded change_value
\* (mutant)
AbsRecord_rounded(cv, pv) ==
  IF cv.t = "nan" \/ pv.t = "nan"
  THEN [current |-> RoundVal(cv), previous |-> RoundVal(pv),
        change_value |-> NaN, direction |-> Str("UNCHANGED")]
  ELSE [current |-> RoundVal(cv), previous |-> RoundVal(pv),
        change_value |-> Num(Round2(cv.n - pv.n)),
        direction |-> Str(Direction(Round2(cv.n - pv.n)))]

\* the absolute record of _calculate_changes (lines 502-508)
AbsRecord(cv, pv) ==
  IF cv.t = "nan" \/ pv.t = "nan"
  THEN [current |-> RoundVal(cv), previous |-> RoundVal(pv),
        change_value |-> NaN, direction |-> Str("UNCHANGED")]
  ELSE [current |-> RoundVal(cv), previous |-> RoundVal(pv),
        change_value |-> Num(Round2(cv.n - pv.n)),
        direction |-> Str(Direction(cv.n - pv.n))]

\* the record of the except branch without its status and error (mutant)
ErrorRecord_silent(cv, pv, error) ==
  [current |-> cv, previous |-> pv, status |-> Str("NO_COMPARISON_DATA")]

\* the record of the except branch of _calculate_changes (lines 521-528)
ErrorRecord(cv, pv, error) ==
  [current |-> cv, previous |-> pv, status |-> Str("CALCULATION_ERROR"),
   error |-> Str(error)]

\* the keys of current for which _calculate_changes stores a record: no
\* branch stores one for a present previous of None, nor for a number
\* compared with text
Recorded(current, previous) ==
  {k \in DOMAIN current :
     IF current[k] # None /\ k \in DOMAIN previous
     THEN /\ previous[k] # None
          /\ \/ IsNumber(current[k]) /\ IsNumber(previous[k])
             \/ current[k].t = "str"
     ELSE TRUE}

\* _calculate_changes without the previous_value != 0 test of line 492
\* (mutant): the division raises and the except branch records the error
_calculate_changes_nozero(current, previous, is_percentage) ==
  Dict([k \in Recorded(current, previous) |->
     LET cv == current[k]
         pv == Get(previous, k)
     IN  IF cv # None /\ k \in DOMAIN previous
         THEN IF IsNumber(cv) /\ IsNumber(pv)
              THEN IF Overflows(cv, pv)
                   THEN ErrorRecord(cv, pv, "int too large to convert to float")
                   ELSE IF is_percentage
                   THEN IF pv = Num(0) THEN ErrorRecord(cv, pv, "float division by zero")
                        ELSE PctRecord(cv, pv)
                   ELSE AbsRecord(cv, pv)
              ELSE [current |-> cv, previous |-> pv,
                    change |-> Str(IF cv # pv THEN "CHANGED" ELSE "UNCHANGED")]
         ELSE [current |-> cv, previous |-> pv, status |-> Str("NO_COMPARISON_DATA")]])

\* EnhancedMarketService._calculate_changes(current, previous, is_percentage)
_calculate_changes(current, previous, is_percentage) ==
  Dict([k \in Recorded(current, previous) |->
     LET cv == current[k]
         pv == Get(previous, k)
     IN  IF cv # None /\ k \in DOMAIN previous
         THEN IF IsNumber(cv) /\ IsNumber(pv)
              THEN IF Overflows(cv, pv)
                   THEN ErrorRecord(cv, pv, "int too large to convert to float")
                   ELSE IF is_percentage /\ pv # Num(0)
                   THEN PctRecord(cv, pv)
                   ELSE AbsRecord(cv, pv)
              ELSE [current |-> cv, previous |-> pv,
                    change |-> Str(IF cv # pv THEN "CHANGED" ELSE "UNCHANGED")]
         ELSE [current |-> cv, previous |-> pv, status |-> Str("NO_COMPARISON_DATA")]])

(* ------------------------- market status analyzer ---------------------- *)
\* CountDirection counting the records without a direction as well (mutant)
CountDirection_all(category_changes, d) ==
  Cardinality({k \in DOMAIN category_changes :
     \/ "direction" \notin DOMAIN category_changes[k]
     \/ category_changes[k].direction = Str(d)})

\* the records of a category whose direction is d; an empty record is falsy
CountDirection(category_changes, d) ==
  Cardinality({k \in DOMAIN category_changes :
     /\ DOMAIN category_changes[k] # {}
     /\ "direction" \in DOMAIN category_changes[k]
     /\ category_changes[k].direction = Str(d)})

\* _get_market_direction with >= 0.6 for > 0.6 (mutant)
_get_market_direction_ge(category_changes) ==
  LET up_count == CountDirection(category_changes, "UP")
      down_count == CountDirection(category_changes, "DOWN")
      total == Cardinality(DOMAIN category_changes)
  IN  IF total = 0 THEN "UNDEFINED"
      ELSE IF 10 * up_count >= 6 * total THEN "STRONGLY_UP"
      ELSE IF 2 * up_count > total THEN "SLIGHTLY_UP"
      ELSE IF 10 * down_count >= 6 * total THEN "STRONGLY_DOWN"
      ELSE IF 2 * down_count > total THEN "SLIGHTLY_DOWN"
      ELSE "MIXED"

\* EnhancedMarketService._get_market_direction: up_count / total > 0.6 is
\* 10 * up_count > 6 * total, for the quotient of two small integers is
\* rounded to the double of 0.6 only when it is 3/5
_get_market_direction(category_changes) ==
  LET up_count == CountDirection(category_changes, "UP")
      down_count == CountDirection(category_changes, "DOWN")
      total == Cardinality(DOMAIN category_changes)
  IN  IF total = 0 THEN "UNDEFINED"
      ELSE IF 10 * up_count > 6 * total THEN "STRONGLY_UP"
      ELSE IF 2 * up_count > total THEN "SLIGHTLY_UP"
      ELSE IF 10 * down_count > 6 * total THEN "STRONGLY_DOWN"
      ELSE IF 2 * down_count > total THEN "SLIGHTLY_DOWN"
      ELSE "MIXED"

\* the order in which get_market_changes puts the categories into changes,
\* and the order in which the catalogue and the derived indicator
\* calculator put the items into a category
CategoryOrder ==
  <<"exchange_rates", "local_indices", "global_indices", "commodities", "bonds",
    "volatility", "crypto", "derived_indicators">>
ItemOrder ==
  <<"USD/KRW", "EUR/KRW", "KOSPI", "GOLD", "US_10Y", "VIX",
    "global_correlation", "gold_dollar_ratio", "risk_level", "commodity_index">>

\* the (category, item) pairs in the order the two loops of
\* _get_significant_changes visit them
VisitOrder ==
  [i \in 1..(Len(CategoryOrder) * Len(ItemOrder)) |->
     [category |-> CategoryOrder[((i - 1) \div Len(ItemOrder)) + 1],
      item |-> ItemOrder[((i - 1) % Len(ItemOrder)) + 1]]]

\* the default of the threshold parameter of _get_significant_changes
DefaultThreshold == 2 * Scale

\* _get_significant_changes with > threshold for >= threshold (mutant)
_get_significant_changes_gt(changes, threshold) ==
  LET kept == SelectSeq(VisitOrder, LAMBDA p :
                /\ p.category \in DOMAIN changes
                /\ p.item \in DOMAIN changes[p.category]
                /\ "change_pct" \in DOMAIN changes[p.category][p.item]
                /\ IsNum(changes[p.category][p.item].change_pct)
                /\ Abs(changes[p.category][p.item].change_pct.n) > threshold)
      significant == [i \in 1..Len(kept) |->
                        [category |-> kept[i].category,
                         item |-> kept[i].item,
                         change_pct |-> changes[kept[i].category][kept[i].item].change_pct,
                         direction |-> changes[kept[i].category][kept[i].item].direction,
                         key |-> Abs(changes[kept[i].category][kept[i].item].change_pct.n)]]
      sorted == SortDescBy(Rows(significant), "key")
  IN  Rows([i \in 1..Len(sorted) |->
        [category |-> sorted[i].category, item |-> sorted[i].item,
         change_pct |-> sorted[i].change_pct, direction |-> sorted[i].direction]])

\* EnhancedMarketService._get_significant_changes(changes, threshold): abs of
\* a NaN change_pct is not >= threshold; sorted(..., reverse=True) is stable
_get_significant_changes(changes, threshold) ==
  LET kept == SelectSeq(VisitOrder, LAMBDA p :
                /\ p.category \in DOMAIN changes
                /\ p.item \in DOMAIN changes[p.category]
                /\ "change_pct" \in DOMAIN changes[p.category][p.item]
                /\ IsNum(changes[p.category][p.item].change_pct)
                /\ Abs(changes[p.category][p.item].change_pct.n) >= threshold)
      significant == [i \in 1..Len(kept) |->
                        [category |-> kept[i].category,
                         item |-> kept[i].item,
                         change_pct |-> changes[kept[i].category][kept[i].item].change_pct,
                         direction |-> changes[kept[i].category][kept[i].item].direction,
                         key |-> Abs(changes[kept[i].category][kept[i].item].change_pct.n)]]
      sorted == SortDescBy(Rows(significant), "key")
  IN  Rows([i \in 1..Len(sorted) |->
        [category |-> sorted[i].category, item |-> sorted[i].item,
         change_pct |-> sorted[i].change_pct, direction |-> sorted[i].direction]])

\* vix < 15 raises TypeError for None and for text; every comparison with
\* NaN is false
LevelRaises(v) == v.t \in {"none", "str"}
LevelOf(v) == IF v.t = "nan" THEN "VERY HIGH" ELSE _calculate_risk_level(v.n)

\* EnhancedMarketService._analyze_volatility; raised when
\* _calculate_risk_level raises on the current value of the VIX record
_analyze_volatility(volatility_changes) ==
  IF "VIX" \notin DOMAIN volatility_changes
  THEN [raised |-> FALSE, level |-> "UNKNOWN", trend |-> "UNKNOWN"]
  ELSE LET vix_change == volatility_changes["VIX"]
       IN  IF LevelRaises(vix_change.current)
           THEN [raised |-> TRUE, level |-> "UNKNOWN", trend |-> "UNKNOWN"]
           ELSE [raised |-> FALSE, level |-> LevelOf(vix_change.current),
                 trend |-> IF "direction" \in DOMAIN vix_change
                           THEN vix_change.direction.s ELSE "UNKNOWN"]

\* EnhancedMarketService._analyze_bonds
_analyze_bonds(bond_changes) ==
  LET up_count == CountDirection(bond_changes, "UP")
      down_count == CountDirection(bond_changes, "DOWN")
  IN  IF DOMAIN bond_changes = {} THEN "UNKNOWN"
      ELSE IF up_count > down_count THEN "YIELD_RISING"
      ELSE IF down_count > up_count THEN "YIELD_FALLING"
      ELSE "STABLE"

\* _analyze_market_status letting the exception of an analyzer through
\* (mutant): get_market_changes then raises
_analyze_market_status_raise(changes) ==
  LET volatility_change == _analyze_volatility(changes["volatility"])
  IN  IF volatility_change.raised THEN [raised |-> TRUE]
      ELSE [market_direction |->
              [local |-> _get_market_direction(changes["local_indices"]),
               global |-> _get_market_direction(changes["global_indices"]),
               currency |-> _get_market_direction(changes["exchange_rates"]),
               commodity |-> _get_market_direction(changes["commodities"])],
            risk_indicators |->
              [volatility_change |-> [level |-> volatility_change.level,
                                      trend |-> volatility_change.trend],
               bond_market |-> _analyze_bonds(changes["bonds"])],
            significant_changes |-> _get_significant_changes(changes, DefaultThreshold)]

\* EnhancedMarketService._analyze_market_status: {} when an analyzer raises
_analyze_market_status(changes) ==
  LET volatility_change == _analyze_volatility(changes["volatility"])
  IN  IF volatility_change.raised THEN <<>>
      ELSE [market_direction |->
              [local |-> _get_market_direction(changes["local_indices"]),
               global |-> _get_market_direction(changes["global_indices"]),
               currency |-> _get_market_direction(changes["exchange_rates"]),
               commodity |-> _get_market_direction(changes["commodities"])],
            risk_indicators |->
              [volatility_change |-> [level |-> volatility_change.level,
                                      trend |-> volatility_change.trend],
               bond_market |-> _analyze_bonds(changes["bonds"])],
            significant_changes |-> _get_significant_changes(changes, DefaultThreshold)]

(* ------------------------------- reads --------------------------------- *)
EmptyDict == <<>>

Restrict(dict, keys) == Dict([k \in DOMAIN dict \cap keys |-> dict[k]])

\* df.head(n)
HeadRows(rows, n) == SubSeq(rows, 1, IF n < Len(rows) THEN n ELSE Len(rows))

\* row i of a file as a dict keyed by metric name, the derived_ prefix removed
RowDict(f, i) ==
  Dict([k \in {StripDerived(col) : col \in f.cols} |->
          f.rows[i].c[CHOOSE col \in f.cols : StripDerived(col) = k]])

\* EnhancedMarketService._load_yesterday_data(filename): df.iloc[0]
_load_yesterday_data(f) == IF Exists(f) THEN RowDict(f, 1) ELSE EmptyDict

\* _load_latest_data with one try for each file (mutant): a one-row file
\* gives {} for that file only
_load_latest_data_separate(basic, global) ==
  <<IF Exists(basic) /\ Len(basic.rows) >= 2 THEN RowDict(basic, 2) ELSE EmptyDict,
    IF Exists(global) /\ Len(global.rows) >= 2 THEN RowDict(global, 2) ELSE EmptyDict>>

\* EnhancedMarketService._load_latest_data: df.iloc[1] of each file; the
\* IndexError of a one-row file is caught and gives ({}, {})
_load_latest_data(basic, global) ==
  IF (Exists(basic) /\ Len(basic.rows) < 2) \/ (Exists(global) /\ Len(global.rows) < 2)
  THEN <<EmptyDict, EmptyDict>>
  ELSE <<IF Exists(basic) THEN RowDict(basic, 2) ELSE EmptyDict,
         IF Exists(global) THEN RowDict(global, 2) ELSE EmptyDict>>

\* MarketService.get_historical_data, one file: read_csv(...).head(days)
get_historical_data(f, days) == HeadRows(f.rows, days)

\* EnhancedMarketService._load_historical_data: sorted by date, head(days)
_load_historical_data(f, days) == HeadRows(SortDescBy(f.rows, "date"), days)

\* SelectedIndicatorsService.get_historical_data: sorted by timestamp,
\* head(days)
selected_get_historical_data(f, days) == HeadRows(SortDescBy(f.rows, "ts"), days)

IsSortedDesc(rows) == \A i \in 1..(Len(rows) - 1) : rows[i].date >= rows[i + 1].date

\* the record calculate_changes stores for a column: pd.to_numeric of both
\* cells, nothing when one is NaN or the previous one is 0
SelectedRecord(cv, pv) ==
  LET change_pct == RoundDiv((cv.n - pv.n) * 100 * 10, Abs(pv.n)) * (Scale \div 10)
  IN  [current |-> Num(Round1(cv.n)), previous |-> Num(Round1(pv.n)),
       change_pct |-> Num(change_pct),
       direction |-> Str(Direction(cv.n - pv.n))]

\* calculate_changes comparing with the row dated days calendar days before
\* the most recent one (mutant)
selected_calculate_changes_calendar(f, days) ==
  LET df == SortDescBy(f.rows, "ts")
      back == {i \in 1..Len(df) : df[i].date = df[1].date - days}
      previous_data == df[CHOOSE i \in back : TRUE]
      compared == {k \in f.cols :
                     /\ IsNum(df[1].c[k]) /\ IsNum(previous_data.c[k])
                     /\ previous_data.c[k].n # 0}
  IN  IF ~Exists(f)
      THEN [status |-> "error", message |-> "No data found for comparison"]
      ELSE IF back = {}
      THEN [status |-> "error", message |-> "Not enough data"]
      ELSE [status |-> "success", current_time |-> df[1].ts,
            previous_time |-> previous_data.ts,
            changes |-> Dict([k \in compared |->
                               SelectedRecord(df[1].c[k], previous_data.c[k])])]

\* SelectedIndicatorsService.calculate_changes(days) on the file f
selected_calculate_changes(f, days) ==
  LET df == SortDescBy(f.rows, "ts")
      previous_data == df[days + 1]
      compared == {k \in f.cols :
                     /\ IsNum(df[1].c[k]) /\ IsNum(previous_data.c[k])
                     /\ previous_data.c[k].n # 0}
  IN  IF ~Exists(f)
      THEN [status |-> "error", message |-> "No data found for comparison"]
      ELSE IF ~(Len(df) > days)
      THEN [status |-> "error", message |-> "Not enough data"]
      ELSE [status |-> "success", current_time |-> df[1].ts,
            previous_time |-> previous_data.ts,
            changes |-> Dict([k \in compared |->
                               SelectedRecord(df[1].c[k], previous_data.c[k])])]

\* pd.to_datetime of a 'YYYY-MM-DD' string: the first instant of that date
Midnight(d) == d * TicksPerDay

\* the dates a request can name; None is an absent parameter
RequestDates(last) == {None} \cup {Num(d) : d \in 1..last}

\* get_period_data applying the row limit to the rows of the date range
\* (mutant)
get_period_data_filtered(f, start_date, end_date, last_n_days) ==
  LET df == SortDescBy(f.rows, "ts")
      InRange(r) == /\ (start_date # None => r.ts >= Midnight(start_date.n))
                    /\ (end_date # None => r.ts <= Midnight(end_date.n))
      ranged == SelectSeq(df, InRange)
      filtered_df == IF last_n_days # 0 THEN HeadRows(ranged, last_n_days) ELSE ranged
      stamps == {filtered_df[i].ts : i \in 1..Len(filtered_df)}
  IN  IF ~Exists(f)
      THEN [status |-> "error", message |-> "No data available"]
      ELSE IF filtered_df = <<>>
      THEN [status |-> "error", message |-> "No data found for the specified period"]
      ELSE [status |-> "success",
            period |-> [start |-> CHOOSE t \in stamps : \A u \in stamps : t <= u,
                        end |-> CHOOSE t \in stamps : \A u \in stamps : t >= u,
                        days |-> Cardinality({DateOf(t) : t \in stamps})],
            data |-> filtered_df]

\* SelectedIndicatorsService.get_period_data on the file f; last_n_days = 0
\* stands for an absent (or zero, equally falsy) last_n_days
get_period_data(f, start_date, end_date, last_n_days) ==
  LET df == SortDescBy(f.rows, "ts")
      InRange(r) == /\ (start_date # None => r.ts >= Midnight(start_date.n))
                    /\ (end_date # None => r.ts <= Midnight(end_date.n))
      filtered_df == IF last_n_days # 0 THEN HeadRows(df, last_n_days)
                     ELSE SelectSeq(df, InRange)
      stamps == {filtered_df[i].ts : i \in 1..Len(filtered_df)}
  IN  IF ~Exists(f)
      THEN [status |-> "error", message |-> "No data available"]
      ELSE IF filtered_df = <<>>
      THEN [status |-> "error", message |-> "No data found for the specified period"]
      ELSE [status |-> "success",
            period |-> [start |-> CHOOSE t \in stamps : \A u \in stamps : t <= u,
                        end |-> CHOOSE t \in stamps : \A u \in stamps : t >= u,
                        days |-> Cardinality({DateOf(t) : t \in stamps})],
            data |-> filtered_df]

\* DataLogService._filter_data_by_date on the rows df, whose date column
\* get_data_logs has parsed to the first instant of each date; now is
\* datetime.now()
_filter_data_by_date(df, start_date, end_date, last_n_days, now) ==
  LET Recent(r) == /\ Midnight(r.date) >= now - last_n_days * TicksPerDay
                   /\ Midnight(r.date) <= now
      InRange(r) == /\ (start_date # None => Midnight(r.date) >= Midnight(start_date.n))
                    /\ (end_date # None => Midnight(r.date) <= Midnight(end_date.n))
  IN  IF last_n_days # 0 THEN SelectSeq(df, Recent) ELSE SelectSeq(df, InRange)

\* DataLogService.get_data_logs: the filtered rows of both daily files; the
\* summary reads the first filtered exchange-rate row and raises when the
\* file exists and the filter leaves none
get_data_logs(rates, market, start_date, end_date, last_n_days, now) ==
  LET rates_df == _filter_data_by_date(rates.rows, start_date, end_date, last_n_days, now)
      indices_df == _filter_data_by_date(market.rows, start_date, end_date, last_n_days, now)
  IN  IF Exists(rates) /\ rates_df = <<>>
      THEN [ok |-> FALSE, exchange_rates |-> <<>>, market_indices |-> <<>>]
      ELSE [ok |-> TRUE, exchange_rates |-> rates_df, market_indices |-> indices_df]

\* the daily file whose read_csv or to_csv raises during a call of
\* MarketService._save_daily_data: none, or one of its two files
DailyFaults == {"none", "exchange_rates", "market_indices"}

\* MarketService._save_daily_data: the files after the call. The body is one
\* try block that writes exchange_rates.csv and then market_indices.csv; an
\* exception is printed at line 142 and the rest of the block is skipped
_save_daily_data(d, ts, rates, idx, fault, fs) ==
  IF fault = "exchange_rates" THEN fs
  ELSE IF fault = "market_indices"
  THEN [fs EXCEPT !["exchange_rates"] = save_daily_file(d, ts, rates, @)]
  ELSE [fs EXCEPT !["exchange_rates"] = save_daily_file(d, ts, rates, @),
                  !["market_indices"] = save_daily_file(d, ts, idx, @)]

(* ------------------------------- state --------------------------------- *)
VARIABLES
  svc,      \* the service a behaviour exercises; the services share no file
  files,    \* dataset name -> CSV file
  current,  \* MarketService's current_*.csv snapshot
  nops,     \* service calls made so far
  args,     \* the inputs of the pure function under check
  res       \* the last call: its name, its inputs and what it returned

vars == <<svc, files, current, nops, args, res>>

Datasets ==
  {"exchange_rates", "market_indices", "basic_indicators", "global_indicators",
   "selected_indicators"}

\* the raw closes of the provider
Quote ==
  [m \in Metrics |->
     CASE m = "USD/KRW" -> 13051
       [] m = "EUR/KRW" -> 14125
       [] m = "KOSPI" -> 25049
       [] m = "GOLD" -> 20249
       [] m = "US_10Y" -> 42449
       [] m = "VIX" -> 182049]

\* the raw closes of the provider on the later dates
LaterQuote ==
  [m \in Metrics |->
     CASE m = "USD/KRW" -> 12500
       [] m = "EUR/KRW" -> 14125
       [] m = "KOSPI" -> 25500
       [] m = "GOLD" -> 20400
       [] m = "US_10Y" -> 84800
       [] m = "VIX" -> 182049]

\* the close of metric m on date d
QuoteOn(m, d) == IF d <= 1 THEN Quote[m] ELSE LaterQuote[m]

\* the answers of the provider to one collection, by the date of the
\* collection: every metric has its quote of the date, but at most one
\* metric, whose history is empty or raises
Answers(symbols) ==
  [d \in 0..(MaxSelectedDate + 1) |->
     {[n \in symbols |-> Close(QuoteOn(n, d))]}
       \cup {[n \in symbols |-> IF n = m THEN o ELSE Close(QuoteOn(n, d))] :
               m \in symbols, o \in {Empty, Raise}}]

NoCall == [op |-> "none"]

Init ==
  /\ svc \in {"market", "enhanced", "selected"}
  /\ files = [d \in Datasets |-> NoFile]
  /\ current = NoFile
  /\ nops = 0
  /\ args = <<>>
  /\ res = NoCall

(* ---------------------------- MarketService ---------------------------- *)
\* MarketService.get_market_data: collect, _save_current_data,
\* _save_daily_data; a provider exception aborts the call before any save
GetMarketData(A) ==
  /\ svc = "market"
  /\ nops < MaxOps
  /\ \E ts \in Clock, fault \in DailyFaults :
     \E ans \in A[DateOf(ts)] :
     \E rates \in {collect_unguarded(currency_pairs, ans)} :
     \E idx \in {collect_unguarded(indices, ans)} :
       /\ nops' = nops + 1
       /\ IF rates.raised \/ idx.raised
          THEN /\ res' = [op |-> "get_market_data", ts |-> ts, ans |-> ans,
                          fault |-> fault, ok |-> FALSE]
               /\ UNCHANGED <<files, current>>
          ELSE /\ current' = Frame(DateOf(ts), ts, rates.results @@ idx.results)
               /\ files' = _save_daily_data(DateOf(ts), ts, rates.results, idx.results,
                                            fault, files)
               /\ res' = [op |-> "get_market_data", ts |-> ts, ans |-> ans,
                          fault |-> fault, ok |-> TRUE,
                          exchange_rates |-> rates.results,
                          market_indices |-> idx.results]
       /\ UNCHANGED <<svc, args>>

\* MarketService.get_historical_data(days)
GetHistoricalData ==
  /\ svc = "market"
  /\ \E days \in 1..(MaxDate + 1) :
       /\ res' = [op |-> "get_historical_data", days |-> days, ok |-> TRUE,
                  exchange_rates |-> get_historical_data(files["exchange_rates"], days),
                  market_indices |-> get_historical_data(files["market_indices"], days)]
       /\ UNCHANGED <<svc, files, current, nops, args>>

(* ------------------------ EnhancedMarketService ------------------------ *)
\* EnhancedMarketService.get_enhanced_market_data under the answers ans
get_enhanced_market_data(ans) ==
  LET collected == Dict([cat \in Categories |-> _collect_data(Symbols(cat), ans)])
  IN  collected @@ [derived_indicators |-> _calculate_derived_indicators(collected)]

\* basic_data of save_enhanced_data (lines 277-282)
BasicCells(data) == data["exchange_rates"] @@ data["local_indices"]

\* global_data of save_enhanced_data (lines 287-296)
GlobalCells(data) ==
  data["global_indices"] @@ data["commodities"] @@ data["bonds"]
    @@ data["volatility"] @@ data["crypto"]
    @@ [col \in {"derived_" \o k : k \in DOMAIN data["derived_indicators"]} |->
          data["derived_indicators"][StripDerived(col)]]

\* the file whose write fails in save_enhanced_data, if one does
EnhancedFaults == {"none", "basic_indicators", "global_indicators"}

\* EnhancedMarketService.save_enhanced_data(data): the files after the call;
\* the write of basic_indicators comes first, and a write that fails raises
\* out of the call with the earlier write kept
save_enhanced_data(ts, data, fault, fs) ==
  [fs EXCEPT
     !["basic_indicators"] =
        IF fault = "basic_indicators" THEN @
        ELSE update_csv_file(DateOf(ts), ts, BasicCells(data), @),
     !["global_indicators"] =
        IF fault = "none"
        THEN update_csv_file(DateOf(ts), ts, GlobalCells(data), @)
        ELSE @]

\* the changes dict with the bonds compared in percentage mode as the other
\* categories (mutant)
Changes_bonds_pct(data, latest_basic, latest_global) ==
  Dict([cat \in Categories \cup {"derived_indicators"} |->
     LET previous ==
           IF cat \in {"exchange_rates", "local_indices"}
           THEN Restrict(latest_basic, Symbols(cat))
           ELSE IF cat = "derived_indicators"
                THEN Restrict(latest_global, DOMAIN data["derived_indicators"])
                ELSE Restrict(latest_global, Symbols(cat))
     IN  _calculate_changes(data[cat], previous, TRUE)])

\* the changes dict of get_market_changes (lines 404-454)
Changes(data, latest_basic, latest_global) ==
  Dict([cat \in Categories \cup {"derived_indicators"} |->
     LET previous ==
           IF cat \in {"exchange_rates", "local_indices"}
           THEN Restrict(latest_basic, Symbols(cat))
           ELSE IF cat = "derived_indicators"
                THEN Restrict(latest_global, DOMAIN data["derived_indicators"])
                ELSE Restrict(latest_global, Symbols(cat))
     IN  _calculate_changes(data[cat], previous, cat # "bonds")])

\* the answers of S in which every metric has a close: the collections in
\* front of a write that fails
Complete(S) == {a \in S : \A n \in DOMAIN a : a[n].k = "close"}

\* EnhancedMarketService.get_market_changes; an exception of
\* save_enhanced_data, or one that left _analyze_market_status, is re-raised
\* by the except of lines 478-481
GetMarketChanges(A) ==
  /\ svc = "enhanced"
  /\ nops < MaxOps
  /\ \E ts \in Clock, fault \in EnhancedFaults :
     \E ans \in IF fault = "none" THEN A[DateOf(ts)] ELSE Complete(A[DateOf(ts)]) :
     \E data \in {get_enhanced_market_data(ans)} :
     \E saved \in {save_enhanced_data(ts, data, fault, files)} :
       /\ nops' = nops + 1
       /\ files' = saved
       /\ IF fault # "none"
          THEN res' = [op |-> "get_market_changes", ts |-> ts, ans |-> ans,
                       fault |-> fault, ok |-> FALSE]
          ELSE \E latest \in {_load_latest_data(saved["basic_indicators"],
                                                saved["global_indicators"])} :
               \E changes \in {Changes(data, latest[1], latest[2])} :
               \E market_status \in {_analyze_market_status(changes)} :
                 res' = IF "raised" \in DOMAIN market_status
                        THEN [op |-> "get_market_changes", ts |-> ts, ans |-> ans,
                              fault |-> fault, ok |-> FALSE]
                        ELSE [op |-> "get_market_changes", ts |-> ts, ans |-> ans,
                              fault |-> fault, ok |-> TRUE,
                              current_data |-> data,
                              latest_basic |-> latest[1], latest_global |-> latest[2],
                              changes |-> changes,
                              market_status |-> market_status]
       /\ UNCHANGED <<svc, current, args>>

(* ---------------------- SelectedIndicatorsService ---------------------- *)
\* SelectedIndicatorsService.save_data(data) for a dict shaped as
\* collect_current_data builds it: the file is written at line 93, then
\* line 94 calls datetime.now() on the datetime module, which raises
SaveData(A) ==
  /\ svc = "selected"
  /\ nops < MaxOps
  /\ \E ts \in SelectedClock :
     \E ans \in A[DateOf(ts)] :
     \E data \in {collect_selected(indicators, ans)} :
       /\ nops' = nops + 1
       /\ files' = [files EXCEPT !["selected_indicators"] = save_data_file(ts, data, @)]
       /\ res' = [op |-> "save_data", ts |-> ts, ans |-> ans, ok |-> FALSE, data |-> data]
       /\ UNCHANGED <<svc, current, args>>

\* SelectedIndicatorsService.update_data: collect_current_data raises at its
\* line 41 (datetime.now() on the module), so nothing is collected or saved
UpdateData ==
  /\ svc = "selected"
  /\ nops < MaxOps
  /\ nops' = nops + 1
  /\ res' = [op |-> "update_data", ok |-> FALSE]
  /\ UNCHANGED <<svc, files, current, args>>

\* SelectedIndicatorsService.calculate_changes(days)
SelectedCalculateChanges ==
  /\ svc = "selected"
  /\ nops < MaxOps
  /\ \E days \in 0..MaxSelectedDate :
       /\ res' = [op |-> "calculate_changes", days |-> days, ok |-> TRUE,
                  result |-> selected_calculate_changes(files["selected_indicators"], days)]
       /\ nops' = nops + 1
       /\ UNCHANGED <<svc, files, current, args>>

\* GET /selected-indicators/period
GetPeriodData ==
  /\ svc = "selected"
  /\ nops < MaxOps
  /\ \E start_date \in RequestDates(MaxSelectedDate), end_date \in RequestDates(MaxSelectedDate),
        last_n_days \in 0..2 :
       /\ res' = [op |-> "get_period_data", start_date |-> start_date,
                  end_date |-> end_date, last_n_days |-> last_n_days, ok |-> TRUE,
                  result |-> get_period_data(files["selected_indicators"],
                                             start_date, end_date, last_n_days)]
       /\ nops' = nops + 1
       /\ UNCHANGED <<svc, files, current, args>>

\* the readings of datetime.now() in _filter_data_by_date: the clock is read
\* only when last_n_days is given
CallTimes(last_n_days) ==
  IF last_n_days # 0 THEN Clock ELSE {CHOOSE t \in Clock : \A u \in Clock : t <= u}

\* GET /logs
GetDataLogs ==
  /\ svc = "market"
  /\ nops < MaxOps
  /\ \E start_date \in RequestDates(MaxDate), end_date \in RequestDates(MaxDate),
        last_n_days \in 0..1 :
     \E now \in CallTimes(last_n_days) :
     \E log_data \in {get_data_logs(files["exchange_rates"], files["market_indices"],
                                    start_date, end_date, last_n_days, now)} :
       /\ res' = [op |-> "get_data_logs", start_date |-> start_date,
                  end_date |-> end_date, last_n_days |-> last_n_days, now |-> now,
                  ok |-> log_data.ok,
                  exchange_rates |-> log_data.exchange_rates,
                  market_indices |-> log_data.market_indices]
       /\ nops' = nops + 1
       /\ UNCHANGED <<svc, files, current, args>>

Next ==
  \/ GetMarketData(Answers(currency_pairs \cup indices))
  \/ GetHistoricalData
  \/ GetMarketChanges(Answers(Metrics))
  \/ SaveData(Answers(indicators))
  \/ UpdateData
  \/ SelectedCalculateChanges
  \/ GetPeriodData
  \/ GetDataLogs

Spec == Init /\ [][Next]_vars

(* ----------------- _calculate_changes as a pure function ---------------- *)
MaxKeys == 2        \* keys of the mappings handed to _calculate_changes

ChangeKeys == {"X", "Y", "Z"}

\* the values of a current mapping and of a previous mapping
CurrentValues == {None, NaN, Num(0), Num(10 * Scale), Num(49), Num(-25050), Str("LOW"), Big}
PreviousValues == {None, NaN, Num(0), Num(8 * Scale), Str("LOW"), Str("HIGH")}

\* every dict with at most MaxKeys keys and values in vals
Mappings(vals) ==
  UNION {[keys -> vals] : keys \in {ks \in SUBSET ChangeKeys : Cardinality(ks) <= MaxKeys}}

InitChanges ==
  /\ svc = "changes"
  /\ files = [d \in Datasets |-> NoFile]
  /\ current = NoFile
  /\ nops = 0
  /\ args \in [current : Mappings(CurrentValues), previous : Mappings(PreviousValues),
               is_percentage : BOOLEAN]
  /\ res = NoCall

\* one call of EnhancedMarketService._calculate_changes
CalculateChanges ==
  /\ svc = "changes"
  /\ res = NoCall
  /\ res' = [op |-> "_calculate_changes", ok |-> TRUE,
             changes |-> _calculate_changes(args.current, args.previous, args.is_percentage)]
  /\ UNCHANGED <<svc, files, current, nops, args>>

NextChanges == CalculateChanges

SpecChanges == InitChanges /\ [][NextChanges]_vars

(* --------------- _get_market_direction as a pure function --------------- *)
MaxRecords == 10    \* records of the category handed to _get_market_direction

\* a record with a direction, as the numeric branches of _calculate_changes
\* build it, and a record without one
DirectionRecord(d) ==
  [current |-> Num(0), previous |-> Num(0), change_value |-> Num(0), direction |-> Str(d)]
StatusRecord == [current |-> None, previous |-> None, status |-> Str("NO_COMPARISON_DATA")]

\* a category of u UP records, d DOWN records, n UNCHANGED records and s
\* records without direction, keyed 1, 2, ...
CategoryOf(u, d, n, s) ==
  Rows([i \in 1..(u + d + n + s) |->
     IF i <= u THEN DirectionRecord("UP")
     ELSE IF i <= u + d THEN DirectionRecord("DOWN")
     ELSE IF i <= u + d + n THEN DirectionRecord("UNCHANGED")
     ELSE StatusRecord])

InitDirection ==
  /\ svc = "direction"
  /\ files = [d \in Datasets |-> NoFile]
  /\ current = NoFile
  /\ nops = 0
  /\ \E u, d, n, s \in 0..MaxRecords :
       /\ u + d + n + s <= MaxRecords
       /\ args = [category_changes |-> CategoryOf(u, d, n, s)]
  /\ res = NoCall

\* one call of EnhancedMarketService._get_market_direction
GetMarketDirection ==
  /\ svc = "direction"
  /\ res = NoCall
  /\ res' = [op |-> "_get_market_direction", ok |-> TRUE,
             direction |-> _get_market_direction(args.category_changes)]
  /\ UNCHANGED <<svc, files, current, nops, args>>

NextDirection == GetMarketDirection

SpecDirection == InitDirection /\ [][NextDirection]_vars

(* -------------- _get_significant_changes as a pure function ------------- *)
\* a percentage record whose change_pct is p
PctRecordOf(p) ==
  [current |-> Num(0), previous |-> Num(0), change_pct |-> p, change_value |-> Num(0),
   direction |-> Str(IF IsNum(p) THEN Direction(p.n) ELSE "UNCHANGED")]

\* the records of an item: a change_pct of 1.5, -3.2, 4.0, -2.1, 2.0, -2.0
\* or NaN, or a record without change_pct
ItemRecords ==
  {PctRecordOf(Num(p)) : p \in {15000, -32000, 40000, -21000, 20000, -20000}}
    \cup {PctRecordOf(NaN), DirectionRecord("UP")}

InitSignificant ==
  /\ svc = "significant"
  /\ files = [d \in Datasets |-> NoFile]
  /\ current = NoFile
  /\ nops = 0
  /\ \E a, b, c, d \in ItemRecords, threshold \in {DefaultThreshold, 3 * Scale} :
       args = [changes |-> [exchange_rates |-> ("USD/KRW" :> a @@ "EUR/KRW" :> b),
                            commodities |-> [GOLD |-> c],
                            bonds |-> [US_10Y |-> DirectionRecord("UP")],
                            volatility |-> [VIX |-> d]],
               threshold |-> threshold]
  /\ res = NoCall

\* one call of EnhancedMarketService._get_significant_changes
GetSignificantChanges ==
  /\ svc = "significant"
  /\ res = NoCall
  /\ res' = [op |-> "_get_significant_changes", ok |-> TRUE,
             significant |-> _get_significant_changes(args.changes, args.threshold)]
  /\ UNCHANGED <<svc, files, current, nops, args>>

NextSignificant == GetSignificantChanges

SpecSignificant == InitSignificant /\ [][NextSignificant]_vars

(* ------------- _calculate_derived_indicators as a function ------------- *)
\* what a snapshot holds for a metric: no entry, None (the provider raised),
\* 0.0 or the quote q
NoEntry == [t |-> "missing", n |-> 0, s |-> ""]
Collected(q) == {NoEntry, None, Num(0), Num(q)}

\* the category dict holding the values vals (a function of metric names),
\* without the metrics that have no entry
CategoryDict(vals) == Dict([k \in {m \in DOMAIN vals : vals[m] # NoEntry} |-> vals[k]])

InitDerived ==
  /\ svc = "derived"
  /\ files = [d \in Datasets |-> NoFile]
  /\ current = NoFile
  /\ nops = 0
  /\ \E kospi \in Collected(25049), snp \in Collected(51002), gold \in Collected(20249),
        oil \in {NoEntry, None, Num(7050)}, usd \in Collected(13051),
        vix \in Collected(182049) :
       args = [data |->
                 [local_indices |-> CategoryDict([k \in {"KOSPI"} |-> kospi]),
                  global_indices |-> CategoryDict([k \in {"S&P500"} |-> snp]),
                  commodities |-> CategoryDict([k \in {"GOLD", "CRUDE_OIL"} |->
                                                  IF k = "GOLD" THEN gold ELSE oil]),
                  exchange_rates |-> CategoryDict([k \in {"USD/KRW"} |-> usd]),
                  volatility |-> CategoryDict([k \in {"VIX"} |-> vix])]]
  /\ res = NoCall

\* one call of EnhancedMarketService._calculate_derived_indicators
CalculateDerivedIndicators ==
  /\ svc = "derived"
  /\ res = NoCall
  /\ res' = [op |-> "_calculate_derived_indicators", ok |-> TRUE,
             derived |-> _calculate_derived_indicators(args.data)]
  /\ UNCHANGED <<svc, files, current, nops, args>>

NextDerived == CalculateDerivedIndicators

SpecDerived == InitDerived /\ [][NextDerived]_vars

(* ----------------- _calculate_risk_level as a function ----------------- *)
MaxVix == 40        \* the largest value handed to _calculate_risk_level

\* the values classified: every quarter from -1 to MaxVix
VixValues == {i * (Scale \div 4) : i \in -4..(4 * MaxVix)}

InitRisk ==
  /\ svc = "risk"
  /\ files = [d \in Datasets |-> NoFile]
  /\ current = NoFile
  /\ nops = 0
  /\ args \in [vix : VixValues]
  /\ res = NoCall

\* one call of EnhancedMarketService._calculate_risk_level
CalculateRiskLevel ==
  /\ svc = "risk"
  /\ res = NoCall
  /\ res' = [op |-> "_calculate_risk_level", ok |-> TRUE,
             level |-> _calculate_risk_level(args.vix)]
  /\ UNCHANGED <<svc, files, current, nops, args>>

NextRisk == CalculateRiskLevel

SpecRisk == InitRisk /\ [][NextRisk]_vars

(* ------------- two unserialized calls of update_csv_file --------------- *)
\* two callers of update_csv_file on basic_indicators.csv, as two requests
\* served by different workers are; each reads the file (line 52) and
\* later writes it (line 71)
Writers == {1, 2}

\* the row a caller upserts
WriterRows ==
  {[d |-> DateOf(ts), ts |-> ts, cells |-> Dict([k \in {"USD/KRW"} |-> Num(q)])] :
     ts \in Clock, q \in {13051, 13100}}

\* the table before the two calls: no file, or one row of an earlier date
StoredBefore == {NoFile, Frame(0, 0, Dict([k \in {"USD/KRW"} |-> Num(13000)]))}

\* the steps taken so far by the callers whose states are st
StepsTaken(st) ==
  Cardinality({w \in Writers : st[w].pc # "start"})
    + Cardinality({w \in Writers : st[w].pc = "done"})

InitRace ==
  /\ svc = "race"
  /\ \E before \in StoredBefore :
       files = [d \in Datasets |-> IF d = "basic_indicators" THEN before ELSE NoFile]
  /\ current = NoFile
  /\ nops = 0
  /\ args \in {a \in [Writers -> WriterRows] : a[1].d # a[2].d}
  /\ res = [w \in Writers |-> [pc |-> "start", existing_df |-> NoFile,
                               read_at |-> 0, written_at |-> 0]]

\* the table written by a caller that read existing_df while the file now
\* holds stored, re-reading the file at the time of the write (mutant)
written_df_fresh(new, existing_df, stored) ==
  update_csv_file(new.d, new.ts, new.cells, stored)

\* the table written by a caller that read existing_df while the file now
\* holds stored: the new row merged into what was read
written_df(new, existing_df, stored) ==
  update_csv_file(new.d, new.ts, new.cells, existing_df)

\* pd.read_csv(file_path) of caller w (line 52)
ReadCsv(w) ==
  /\ svc = "race"
  /\ res[w].pc = "start"
  /\ res' = [res EXCEPT ![w] = [pc |-> "read",
                                existing_df |-> files["basic_indicators"],
                                read_at |-> StepsTaken(res) + 1, written_at |-> 0]]
  /\ UNCHANGED <<svc, files, current, nops, args>>

\* updated_df.to_csv(file_path) of caller w (line 71)
WriteCsv(w) ==
  /\ svc = "race"
  /\ res[w].pc = "read"
  /\ files' = [files EXCEPT !["basic_indicators"] =
                 written_df(args[w], res[w].existing_df, @)]
  /\ res' = [res EXCEPT ![w].pc = "done", ![w].written_at = StepsTaken(res) + 1]
  /\ UNCHANGED <<svc, current, nops, args>>

NextRace == \E w \in Writers : ReadCsv(w) \/ WriteCsv(w)

SpecRace == InitRace /\ [][NextRace]_vars

(* ------------------------------- claims -------------------------------- *)
EnhancedFiles == {"basic_indicators", "global_indicators"}

\* the cells save_enhanced_data hands to update_csv_file for a file
CellsOf(d, data) == IF d = "basic_indicators" THEN BasicCells(data) ELSE GlobalCells(data)

\* the file that stores the metrics of a category
FileOf(cat) ==
  IF cat \in {"exchange_rates", "local_indices"} THEN "basic_indicators"
  ELSE "global_indicators"

\* C1: after any sequence of upserts, repeated ones for one date included,
\* every dataset holds at most one row per date.
C1_OneRowPerDate ==
  \A d \in Datasets : \A i, j \in 1..Len(files[d].rows) :
    files[d].rows[i].date = files[d].rows[j].date => i = j

\* two upserts of the enhanced datasets were made for one date and one row
\* is stored
C1_Witness ==
  /\ res.op = "get_market_changes"
  /\ nops = 2
  /\ Len(files["basic_indicators"].rows) = 1
  /\ Len(files["global_indicators"].rows) = 1

\* C2 (as stated): after upserts in any order of dates an unfiltered read of
\* every dataset returns its rows in non-increasing date order, the
\* exchange_rates and market_indices read by MarketService.get_historical_data
\* included.
C2_ReadsSortedDesc ==
  /\ res.op = "get_historical_data" =>
       IsSortedDesc(res.exchange_rates) /\ IsSortedDesc(res.market_indices)
  /\ \A d \in EnhancedFiles :
       IsSortedDesc(_load_historical_data(files[d], Len(files[d].rows)))
  /\ IsSortedDesc(selected_get_historical_data(files["selected_indicators"],
                                               Len(files["selected_indicators"].rows)))

\* C3 (as stated): the same upsert (same dataset, date and row) made twice in
\* a row leaves the table as it was after the first one.
C3_SecondUpsertChangesNothing ==
  [][(/\ res.op \in {"get_market_changes", "save_data"}
      /\ res'.op = res.op
      /\ nops' = nops + 1
      /\ res'.ts = res.ts
      /\ res'.ans = res.ans) => files' = files]_vars

\* C4 (as stated): right after a snapshot is persisted the row at offset 0 of
\* each enhanced dataset is the row just written and each numeric field of it
\* is the snapshot's value rounded to two decimals, whatever dates are stored.
C4_Offset0IsSnapshot ==
  (res.op = "get_market_changes" /\ res.ok) =>
    \A d \in EnhancedFiles :
      /\ Exists(files[d])
      /\ files[d].rows[1].ts = res.ts
      /\ \A k \in DOMAIN CellsOf(d, res.current_data) :
           IsNum(CellsOf(d, res.current_data)[k]) =>
             _load_yesterday_data(files[d])[StripDerived(k)]
               = Num(Round2(CellsOf(d, res.current_data)[k].n))

\* C4 (amended): the same, when no stored row has a date later than the
\* snapshot's date.
C4_Offset0IsSnapshotWhenLatest ==
  (res.op = "get_market_changes" /\ res.ok) =>
    \A d \in EnhancedFiles :
      (\A i \in 1..Len(files[d].rows) : files[d].rows[i].date <= DateOf(res.ts)) =>
        /\ Exists(files[d])
        /\ files[d].rows[1].ts = res.ts
        /\ \A k \in DOMAIN CellsOf(d, res.current_data) :
             IsNum(CellsOf(d, res.current_data)[k]) =>
               _load_yesterday_data(files[d])[StripDerived(k)]
                 = Num(Round2(CellsOf(d, res.current_data)[k].n))

\* a snapshot with a ratio of four decimals was persisted on top of an older
\* row
C4_Witness ==
  /\ res.op = "get_market_changes"
  /\ res.ok
  /\ Len(files["global_indicators"].rows) >= 2
  /\ \A i \in 1..Len(files["global_indicators"].rows) :
       files["global_indicators"].rows[i].date <= DateOf(res.ts)
  /\ "gold_dollar_ratio" \in DOMAIN res.current_data["derived_indicators"]
  /\ res.current_data["derived_indicators"]["gold_dollar_ratio"]
       # files["global_indicators"].rows[1].c["derived_gold_dollar_ratio"]

\* C5 (as stated): for all mappings current and previous _calculate_changes
\* returns exactly one record for every key of current.
C5_OneRecordPerKey ==
  res.op = "_calculate_changes" => DOMAIN res.changes = DOMAIN args.current

\* C6: in percentage mode, for a numeric current and a previous of 0 the
\* record has change_value = current - previous (rounded to two decimals as
\* every displayed field), no change_pct, the direction of the sign of
\* current - previous, and no status.
C6_ZeroPreviousFallsBack ==
  (res.op = "_calculate_changes" /\ args.is_percentage) =>
    \A k \in DOMAIN args.current \cap DOMAIN args.previous :
      (IsNum(args.current[k]) /\ args.previous[k] = Num(0)) =>
        /\ k \in DOMAIN res.changes
        /\ DOMAIN res.changes[k] = {"current", "previous", "change_value", "direction"}
        /\ res.changes[k].change_value = Num(Round2(args.current[k].n - 0))
        /\ res.changes[k].direction = Str(Direction(args.current[k].n - 0))

\* _calculate_changes({'X': 10}, {'X': 0}, True) gave change_value 10 and UP
C6_Witness ==
  /\ res.op = "_calculate_changes"
  /\ args.is_percentage
  /\ "X" \in DOMAIN args.current \cap DOMAIN args.previous
  /\ args.current["X"] = Num(10 * Scale)
  /\ args.previous["X"] = Num(0)
  /\ res.changes["X"].change_value = Num(10 * Scale)
  /\ res.changes["X"].direction = Str("UP")

\* C7 (as stated): a metric that had no value when the baseline row was
\* stored has status NO_COMPARISON_DATA when a later snapshot with a number
\* for it is compared against that row.
C7_AbsentBaselineIsGap ==
  [][\A cat \in Categories : \A m \in Symbols(cat) :
       (/\ res.op = "get_market_changes"
        /\ res'.op = "get_market_changes"
        /\ res'.ok
        /\ nops' = nops + 1
        /\ res.ans[m].k # "close"
        /\ res'.ans[m].k = "close"
        /\ DateOf(res'.ts) > DateOf(res.ts)
        /\ Len(files'[FileOf(cat)].rows) >= 2
        /\ files'[FileOf(cat)].rows[2].ts = res.ts)
       => /\ m \in DOMAIN res'.changes[cat]
          /\ "status" \in DOMAIN res'.changes[cat][m]
          /\ res'.changes[cat][m].status = Str("NO_COMPARISON_DATA")]_vars

\* C8 (as stated): for every outcome of the provider calls the changes of
\* get_market_changes hold exactly one record for every metric of the
\* catalogue in every category.
C8_EveryMetricHasRecord ==
  (res.op = "get_market_changes" /\ res.ok) =>
    \A cat \in Categories : DOMAIN res.changes[cat] = Symbols(cat)

\* C9: when the provider raises for one metric of a category, _collect_data
\* returns, maps that metric to None and returns the fetched values of the
\* other metrics.
C9_RaisingMetricIsNone ==
  (res.op = "get_market_changes" /\ res.ok) =>
    \A cat \in Categories : \A n \in Symbols(cat) :
      /\ res.ans[n] = Raise =>
           n \in DOMAIN res.current_data[cat] /\ res.current_data[cat][n] = None
      /\ res.ans[n].k = "close" =>
           /\ n \in DOMAIN res.current_data[cat]
           /\ res.current_data[cat][n] = Num(Round2(res.ans[n].v))

\* the provider raised for one metric and the other metrics were collected
C9_Witness ==
  /\ res.op = "get_market_changes"
  /\ res.ok
  /\ \E cat \in Categories : \E n, m \in Symbols(cat) :
       /\ res.ans[n] = Raise
       /\ res.current_data[cat][n] = None
       /\ res.ans[m].k = "close"
       /\ res.current_data[cat][m] = Num(Round2(Quote[m]))

\* C10 (as stated): MarketService.get_market_data does not fail when the
\* provider fails for one pair or index; it returns the other metrics and
\* persists them.
C10_SingleFailureTolerated ==
  res.op = "get_market_data" =>
    /\ res.ok
    /\ \A n \in currency_pairs : res.ans[n].k = "close" => n \in DOMAIN res.exchange_rates
    /\ \A n \in indices : res.ans[n].k = "close" => n \in DOMAIN res.market_indices
    /\ \E i \in 1..Len(files["exchange_rates"].rows) :
         files["exchange_rates"].rows[i].ts = res.ts

\* C11 (as stated): a category with exactly 6 UP records of 10 is MIXED and
\* one with 7 of 10 is STRONGLY_UP; an up ratio of exactly 0.6 never yields
\* an UP label.
C11_SixOfTenIsMixed ==
  res.op = "_get_market_direction" =>
    LET up == CountDirection(args.category_changes, "UP")
        total == Len(args.category_changes)
    IN  /\ (up = 6 /\ total = 10) => res.direction = "MIXED"
        /\ (up = 7 /\ total = 10) => res.direction = "STRONGLY_UP"
        /\ (total > 0 /\ 10 * up = 6 * total) =>
             res.direction \notin {"STRONGLY_UP", "SLIGHTLY_UP"}

\* C11 (amended): 6 UP of 10 is SLIGHTLY_UP and 7 of 10 is STRONGLY_UP; an
\* up ratio of exactly 0.6 never yields STRONGLY_UP, it yields SLIGHTLY_UP.
C11_SixOfTenIsSlightlyUp ==
  res.op = "_get_market_direction" =>
    LET up == CountDirection(args.category_changes, "UP")
        total == Len(args.category_changes)
    IN  /\ (up = 6 /\ total = 10) => res.direction = "SLIGHTLY_UP"
        /\ (up = 7 /\ total = 10) => res.direction = "STRONGLY_UP"
        /\ (total > 0 /\ 10 * up = 6 * total) => res.direction = "SLIGHTLY_UP"

\* the direction of a category of 6 UP records and 4 others was computed
C11_Witness ==
  /\ res.op = "_get_market_direction"
  /\ Len(args.category_changes) = 10
  /\ CountDirection(args.category_changes, "UP") = 6
  /\ res.direction = "SLIGHTLY_UP"

\* C12: _get_significant_changes returns exactly the category/item records
\* that carry a change_pct with |change_pct| >= threshold (one exactly at the
\* threshold included), each once, ordered by |change_pct| descending.
C12_SignificantChanges ==
  res.op = "_get_significant_changes" =>
    LET S == res.significant
        qualifying ==
          {<<cat, item>> \in UNION {{<<c, i>> : i \in DOMAIN args.changes[c]} :
                                      c \in DOMAIN args.changes} :
             /\ "change_pct" \in DOMAIN args.changes[cat][item]
             /\ IsNum(args.changes[cat][item].change_pct)
             /\ \/ args.changes[cat][item].change_pct.n >= args.threshold
                \/ -args.changes[cat][item].change_pct.n >= args.threshold}
    IN  /\ {<<S[i].category, S[i].item>> : i \in 1..Len(S)} = qualifying
        /\ Len(S) = Cardinality(qualifying)
        /\ \A i \in 1..Len(S) :
             S[i].change_pct = args.changes[S[i].category][S[i].item].change_pct
        /\ \A i, j \in 1..Len(S) :
             i < j => Abs(S[i].change_pct.n) >= Abs(S[j].change_pct.n)

\* for the change_pct values 1.5, -3.2, 4.0, -2.1 and threshold 2.0 the
\* result was 4.0, -3.2, -2.1
C12_Witness ==
  /\ res.op = "_get_significant_changes"
  /\ args.threshold = DefaultThreshold
  /\ \A c \in {"exchange_rates", "commodities", "volatility"} :
       \A i \in DOMAIN args.changes[c] : "change_pct" \in DOMAIN args.changes[c][i]
  /\ args.changes["exchange_rates"]["USD/KRW"].change_pct = Num(15000)
  /\ args.changes["exchange_rates"]["EUR/KRW"].change_pct = Num(-32000)
  /\ args.changes["commodities"]["GOLD"].change_pct = Num(40000)
  /\ args.changes["volatility"]["VIX"].change_pct = Num(-21000)
  /\ Len(res.significant) = 3
  /\ res.significant[1].change_pct = Num(40000)
  /\ res.significant[2].change_pct = Num(-32000)
  /\ res.significant[3].change_pct = Num(-21000)

\* C13: calculate_changes(days = N) compares the most recent stored row with
\* the row N positions back in descending order, whatever its date, and
\* reports an error without changes when fewer than N + 1 rows are stored.
C13_OffsetComparison ==
  res.op = "calculate_changes" =>
    LET rows == files["selected_indicators"].rows
    IN  IF Len(rows) < res.days + 1
        THEN res.result.status = "error" /\ "changes" \notin DOMAIN res.result
        ELSE /\ res.result.status = "success"
             /\ \A i \in 1..Len(rows) : rows[i].ts <= res.result.current_time
             /\ \E i \in 1..Len(rows) :
                  /\ rows[i].ts = res.result.previous_time
                  /\ Cardinality({j \in 1..Len(rows) : rows[j].ts > rows[i].ts}) = res.days

\* rows of dates 3 and 1 are stored and calculate_changes(1) compared the
\* row of date 3 with the row of date 1
C13_Witness ==
  /\ res.op = "calculate_changes"
  /\ res.days = 1
  /\ DatesOf(files["selected_indicators"]) = {1, 3}
  /\ res.result.status = "success"
  /\ DateOf(res.result.current_time) = 3
  /\ DateOf(res.result.previous_time) = 1

\* the rows a get_period_data answer carries
PeriodData(result) == IF result.status = "success" THEN result.data ELSE <<>>

\* the rows of a sequence, and those dated from start to end inclusive
RowSet(rows) == {rows[i] : i \in 1..Len(rows)}
DatedWithin(rows, start, end) == {r \in RowSet(rows) : start <= r.date /\ r.date <= end}

\* C14: a read with a date range returns every stored row dated from
\* start_date to end_date, both ends included, in get_period_data and in
\* get_data_logs alike.
C14_RangeInclusive ==
  /\ (/\ res.op = "get_period_data"
      /\ res.last_n_days = 0 /\ res.start_date # None /\ res.end_date # None)
     => RowSet(PeriodData(res.result))
          = DatedWithin(files["selected_indicators"].rows, res.start_date.n, res.end_date.n)
  /\ (/\ res.op = "get_data_logs" /\ res.ok
      /\ res.last_n_days = 0 /\ res.start_date # None /\ res.end_date # None)
     => /\ RowSet(res.exchange_rates)
             = DatedWithin(files["exchange_rates"].rows, res.start_date.n, res.end_date.n)
        /\ RowSet(res.market_indices)
             = DatedWithin(files["market_indices"].rows, res.start_date.n, res.end_date.n)

\* C15 (as stated): with a row limit and a date range, the read returns the
\* first limit rows, newest first, of the rows inside the date range.
C15_LimitAfterRange ==
  /\ (/\ res.op = "get_period_data"
      /\ res.last_n_days # 0 /\ res.start_date # None /\ res.end_date # None)
     => LET InRange(r) == res.start_date.n <= r.date /\ r.date <= res.end_date.n
        IN  PeriodData(res.result)
              = HeadRows(SelectSeq(SortDescBy(files["selected_indicators"].rows, "ts"),
                                   InRange), res.last_n_days)
  /\ (/\ res.op = "get_data_logs" /\ res.ok
      /\ res.last_n_days # 0 /\ res.start_date # None /\ res.end_date # None)
     => /\ RowSet(res.exchange_rates)
             \subseteq DatedWithin(files["exchange_rates"].rows, res.start_date.n, res.end_date.n)
        /\ Len(res.exchange_rates) <= res.last_n_days

\* C15 (amended): with a row limit and a date range, the date range is
\* ignored: get_period_data returns the limit most recent of all stored
\* rows, newest first, and get_data_logs returns the stored rows dated
\* within the limit days that end at the time of the call.
C15_LimitIgnoresRange ==
  /\ (/\ res.op = "get_period_data"
      /\ res.last_n_days # 0 /\ res.start_date # None /\ res.end_date # None)
     => LET rows == files["selected_indicators"].rows
            data == PeriodData(res.result)
        IN  /\ Len(data) = IF Len(rows) < res.last_n_days THEN Len(rows) ELSE res.last_n_days
            /\ RowSet(data) \subseteq RowSet(rows)
            /\ \A i, j \in 1..Len(data) : i < j => data[i].ts > data[j].ts
            /\ \A r \in RowSet(rows) \ RowSet(data) : \A i \in 1..Len(data) : r.ts < data[i].ts
  /\ (/\ res.op = "get_data_logs" /\ res.ok
      /\ res.last_n_days # 0 /\ res.start_date # None /\ res.end_date # None)
     => LET Recent(rows) == {r \in RowSet(rows) :
                               /\ r.date * TicksPerDay <= res.now
                               /\ r.date * TicksPerDay >= res.now - res.last_n_days * TicksPerDay}
        IN  /\ RowSet(res.exchange_rates) = Recent(files["exchange_rates"].rows)
            /\ RowSet(res.market_indices) = Recent(files["market_indices"].rows)

\* a limit of 1 with the range of date 1 while rows of dates 1 and 2 are
\* stored: the answer is the row of date 2, outside the range
C15_Witness ==
  /\ res.op = "get_period_data"
  /\ res.last_n_days = 1 /\ res.start_date = Num(1) /\ res.end_date = Num(1)
  /\ DatesOf(files["selected_indicators"]) = {1, 2}
  /\ res.result.status = "success"
  /\ Len(res.result.data) = 1
  /\ res.result.data[1].date = 2

\* C16: when a daily file cannot be written during get_market_data, the
\* call fails to its caller instead of returning the snapshot as a success.
C16_StorageFaultFails ==
  (res.op = "get_market_data" /\ res.fault # "none") => ~res.ok

\* a stored cell is unchanged: the same value, or the same number now read
\* as text because its column has come to hold text
SameCell(old, new) == new = old \/ (IsNum(old) /\ new = Str(NumText(old.n)))

\* after a write at time res'.ts, every row stored before under another date
\* is still stored with each of its cells as it was; with filled, an empty
\* cell of an enhanced dataset may also have become 0
OtherRowsKept(filled) ==
  \A ds \in Datasets :
    (files'[ds] # files[ds] /\ "ts" \in DOMAIN res') =>
      \A i \in 1..Len(files[ds].rows) :
        files[ds].rows[i].date # DateOf(res'.ts) =>
          \E j \in 1..Len(files'[ds].rows) :
            /\ files'[ds].rows[j].date = files[ds].rows[i].date
            /\ files'[ds].rows[j].ts = files[ds].rows[i].ts
            /\ \A k \in files[ds].cols :
                 \/ SameCell(files[ds].rows[i].c[k], files'[ds].rows[j].c[k])
                 \/ /\ filled /\ ds \in EnhancedFiles
                    /\ IsNA(files[ds].rows[i].c[k])
                    /\ SameCell(Num(0), files'[ds].rows[j].c[k])

\* C17 (as stated): an upsert for date d leaves every stored row of another
\* date unchanged in every column; empty cells stay empty.
C17_OtherRowsUnchanged == [][OtherRowsKept(FALSE)]_vars

\* C17 (amended): an upsert for date d leaves every stored row of another
\* date unchanged in every column, except that update_csv_file (the
\* enhanced datasets) rewrites the empty cells of those rows as 0.
C17_OtherRowsUnchangedButFilled == [][OtherRowsKept(TRUE)]_vars

\* an enhanced upsert for date 2 is the last call and the stored row of
\* date 1 holds a 0 next to a quoted value
C17_Witness ==
  /\ res.op = "get_market_changes"
  /\ DateOf(res.ts) = 2
  /\ \E i \in 1..Len(files["basic_indicators"].rows) :
       /\ files["basic_indicators"].rows[i].date = 1
       /\ \E k, m \in files["basic_indicators"].cols :
            /\ files["basic_indicators"].rows[i].c[k] = Num(0)
            /\ IsNum(files["basic_indicators"].rows[i].c[m])
            /\ files["basic_indicators"].rows[i].c[m].n # 0

\* C18: with the store usable and the providers answering, update_data
\* returns a success result and does not raise to its caller.
C18_UpdateDataSucceeds ==
  res.op = "update_data" => res.ok

\* C19: a record of _calculate_changes has change_pct exactly when the mode
\* is percentage, current and previous are both numbers and previous is not
\* 0; then change_pct is (current - previous) / |previous| * 100 and
\* change_value is current - previous, each rounded to two decimals.
C19_PctExactlyWhen ==
  res.op = "_calculate_changes" =>
    \A k \in DOMAIN res.changes :
      LET r == res.changes[k]
          cv == args.current[k]
          both == /\ k \in DOMAIN args.previous
                  /\ IsNum(cv) /\ IsNum(args.previous[k])
                  /\ args.previous[k].n # 0
      IN  /\ "change_pct" \in DOMAIN r <=> (args.is_percentage /\ both)
          /\ "change_pct" \in DOMAIN r =>
               LET pv == args.previous[k]
                   m == r.change_pct.n \div (Scale \div 100)
               IN  /\ IsNum(r.change_pct)
                   /\ r.change_pct.n % (Scale \div 100) = 0
                   /\ 2 * Abs(m * Abs(pv.n) - (cv.n - pv.n) * 100 * 100) <= Abs(pv.n)
                   /\ r.change_value = Num(Round2(cv.n - pv.n))

\* C20 (as stated): the direction of a record agrees with the delta the
\* record reports, change_pct if present, else change_value.
C20_DirectionOfReportedDelta ==
  res.op = "_calculate_changes" =>
    \A k \in DOMAIN res.changes :
      "direction" \in DOMAIN res.changes[k] =>
        LET r == res.changes[k]
            delta == IF "change_pct" \in DOMAIN r THEN r.change_pct ELSE r.change_value
        IN  /\ r.direction = Str("UP") <=> (IsNum(delta) /\ delta.n > 0)
            /\ r.direction = Str("DOWN") <=> (IsNum(delta) /\ delta.n < 0)
            /\ r.direction = Str("UNCHANGED") <=> delta = Num(0)

\* C20 (amended): the direction of a record agrees with the delta
\* current - previous before it is rounded for the record: UP iff it is
\* > 0, DOWN iff it is < 0, UNCHANGED iff it is 0 or not a number.
C20_DirectionOfExactDelta ==
  res.op = "_calculate_changes" =>
    \A k \in DOMAIN res.changes :
      "direction" \in DOMAIN res.changes[k] =>
        LET r == res.changes[k]
            cv == args.current[k]
            pv == args.previous[k]
            numbers == IsNum(cv) /\ IsNum(pv)
        IN  /\ r.direction = Str("UP") <=> (numbers /\ cv.n - pv.n > 0)
            /\ r.direction = Str("DOWN") <=> (numbers /\ cv.n - pv.n < 0)
            /\ r.direction = Str("UNCHANGED") <=> (~numbers \/ cv.n = pv.n)

\* current 0.0049 against previous 0: the record reports change_value 0.0
\* and the direction UP of the exact delta
C20_Witness ==
  /\ res.op = "_calculate_changes"
  /\ "X" \in DOMAIN args.current \cap DOMAIN args.previous
  /\ args.current["X"] = Num(49)
  /\ args.previous["X"] = Num(0)
  /\ res.changes["X"].change_value = Num(0)
  /\ res.changes["X"].direction = Str("UP")

\* C21: _get_market_direction returns UNDEFINED iff the category is empty;
\* otherwise STRONGLY_UP iff up/total > 0.6, SLIGHTLY_UP iff
\* 0.5 < up/total <= 0.6, STRONGLY_DOWN and SLIGHTLY_DOWN alike for down,
\* and MIXED in every other case; total counts every record of the category.
C21_DirectionTable ==
  res.op = "_get_market_direction" =>
    LET cc == args.category_changes
        With(d) == {i \in DOMAIN cc : "direction" \in DOMAIN cc[i] /\ cc[i].direction = Str(d)}
        up == Cardinality(With("UP"))
        down == Cardinality(With("DOWN"))
        total == Len(cc)
        label == res.direction
    IN  /\ label = "UNDEFINED" <=> total = 0
        /\ total > 0 =>
             /\ label = "STRONGLY_UP" <=> 10 * up > 6 * total
             /\ label = "SLIGHTLY_UP" <=> (2 * up > total /\ 10 * up <= 6 * total)
             /\ label = "STRONGLY_DOWN" <=> 10 * down > 6 * total
             /\ label = "SLIGHTLY_DOWN" <=> (2 * down > total /\ 10 * down <= 6 * total)
             /\ label = "MIXED" <=> (2 * up <= total /\ 2 * down <= total)

\* a category of 3 UP records and 2 records without direction is
\* SLIGHTLY_UP, and one split 5 UP to 5 DOWN is MIXED
C21_Witness ==
  /\ res.op = "_get_market_direction"
  /\ LET cc == args.category_changes
         up == Cardinality({i \in DOMAIN cc : "direction" \in DOMAIN cc[i]
                                               /\ cc[i].direction = Str("UP")})
         none == Cardinality({i \in DOMAIN cc : "direction" \notin DOMAIN cc[i]})
     IN  /\ Len(cc) = 5 /\ up = 3 /\ none = 2
         /\ res.direction = "SLIGHTLY_UP"

\* C22: when the change of one metric raises, the record of that metric has
\* status CALCULATION_ERROR with the description of the error, and the
\* records of the other metrics are those of the batch without that metric.
C22_ErrorIsolated ==
  res.op = "_calculate_changes" =>
    \A k \in DOMAIN args.current \cap DOMAIN args.previous :
      (IsNumber(args.current[k]) /\ IsNumber(args.previous[k])
         /\ Overflows(args.current[k], args.previous[k])) =>
        LET rest == Restrict(args.current, DOMAIN args.current \ {k})
            without == _calculate_changes(rest, args.previous, args.is_percentage)
        IN  /\ k \in DOMAIN res.changes
            /\ res.changes[k].status = Str("CALCULATION_ERROR")
            /\ res.changes[k].error.t = "str" /\ res.changes[k].error.s # ""
            /\ DOMAIN res.changes \ {k} = DOMAIN without
            /\ \A j \in DOMAIN without : res.changes[j] = without[j]

\* the change of X raised and Y, in the same batch, has its numeric record
C22_Witness ==
  /\ res.op = "_calculate_changes"
  /\ DOMAIN args.current = {"X", "Y"}
  /\ DOMAIN args.previous = {"X", "Y"}
  /\ args.current["X"] = Big /\ args.previous["X"] = Num(8 * Scale)
  /\ args.current["Y"] = Num(10 * Scale) /\ args.previous["Y"] = Num(8 * Scale)
  /\ res.changes["X"].status = Str("CALCULATION_ERROR")
  /\ res.changes["Y"].direction = Str("UP")

\* C23: when the analysis of the market status fails, here on a VIX record
\* whose current value is None because the provider raised for VIX,
\* get_market_changes still returns the current data and the changes, with
\* an empty market_status, and does not raise.
C23_AnalyzerFailureIsEmptyStatus ==
  (res.op = "get_market_changes" /\ res.fault = "none" /\ res.ans["VIX"] = Raise) =>
    /\ res.ok
    /\ res.market_status = <<>>
    /\ res.current_data["volatility"]["VIX"] = None
    /\ "VIX" \in DOMAIN res.changes["volatility"]
    /\ \A d \in EnhancedFiles : DateOf(res.ts) \in DatesOf(files[d])

\* the provider raised for VIX and the answer carries the other changes
C23_Witness ==
  /\ res.op = "get_market_changes"
  /\ res.ans["VIX"] = Raise
  /\ res.ok
  /\ res.market_status = <<>>
  /\ "direction" \in DOMAIN res.changes["exchange_rates"]["USD/KRW"]

\* C24: each derived indicator is produced exactly when its own inputs are
\* present, whatever the inputs of the others are, and commodity_index is
\* absent when no commodity has a value.
C24_IndicatorsIndependent ==
  res.op = "_calculate_derived_indicators" =>
    LET Present(cat, m) == /\ m \in DOMAIN args.data[cat]
                           /\ IsNum(args.data[cat][m])
    IN  /\ "global_correlation" \in DOMAIN res.derived
             <=> (Present("local_indices", "KOSPI") /\ Present("global_indices", "S&P500"))
        /\ "gold_dollar_ratio" \in DOMAIN res.derived
             <=> (Present("commodities", "GOLD") /\ Present("exchange_rates", "USD/KRW"))
        /\ "risk_level" \in DOMAIN res.derived <=> Present("volatility", "VIX")
        /\ "commodity_index" \in DOMAIN res.derived
             <=> \E m \in DOMAIN args.data["commodities"] : Present("commodities", m)

\* C25: the level classifier gives LOW iff v < 15, MODERATE iff
\* 15 <= v < 25, HIGH iff 25 <= v < 35 and VERY HIGH iff v >= 35; the
\* cutoffs 15, 25 and 35 belong to the higher label.
C25_RiskLevelCutoffs ==
  res.op = "_calculate_risk_level" =>
    LET v == args.vix
    IN  /\ res.level = "LOW" <=> v < 15 * Scale
        /\ res.level = "MODERATE" <=> (15 * Scale <= v /\ v < 25 * Scale)
        /\ res.level = "HIGH" <=> (25 * Scale <= v /\ v < 35 * Scale)
        /\ res.level = "VERY HIGH" <=> v >= 35 * Scale

\* the value 25 was classified HIGH
C25_Witness ==
  /\ res.op = "_calculate_risk_level"
  /\ args.vix = 25 * Scale
  /\ res.level = "HIGH"

\* the row of caller w is stored
RowStored(w) ==
  \E i \in 1..Len(files["basic_indicators"].rows) :
    /\ files["basic_indicators"].rows[i].date = args[w].d
    /\ files["basic_indicators"].rows[i].ts = args[w].ts

\* both callers have written; one wrote before the other read; both read
\* before either wrote
BothDone == \A w \in Writers : res[w].pc = "done"
Serialized == \E v, w \in Writers : res[v].written_at < res[w].read_at
Interleaved == \A v, w \in Writers : res[v].read_at < res[w].written_at

\* C26: two upserts of different dates into one dataset that both read the
\* table before either writes leave a table without the row of the caller
\* that wrote first; run one after the other they leave both rows.
C26_UnserializedUpsertsRace ==
  (svc = "race" /\ BothDone) =>
    /\ Serialized => \A w \in Writers : RowStored(w)
    /\ Interleaved => \E v, w \in Writers :
                        /\ res[v].written_at < res[w].written_at
                        /\ ~RowStored(v) /\ RowStored(w)

\* both callers read, then both wrote, and the row of caller 1 is lost
C26_Witness ==
  /\ svc = "race" /\ BothDone /\ Interleaved
  /\ ~RowStored(1) /\ RowStored(2)

\* C29 (as stated): after any sequence of save_enhanced_data calls from
\* empty datasets, failing calls included, basic_indicators and
\* global_indicators hold rows for exactly the same dates and the two rows of
\* a date carry the same timestamp.
C29_SameDatesInBothFiles ==
  /\ DatesOf(files["basic_indicators"]) = DatesOf(files["global_indicators"])
  /\ \A i \in 1..Len(files["basic_indicators"].rows) :
     \A j \in 1..Len(files["global_indicators"].rows) :
       files["basic_indicators"].rows[i].date = files["global_indicators"].rows[j].date
         => files["basic_indicators"].rows[i].ts = files["global_indicators"].rows[j].ts

\* the records of every collected metric of the answer are gaps
AllNoComparisonData ==
  \A cat \in DOMAIN res.current_data : \A m \in DOMAIN res.current_data[cat] :
    /\ m \in DOMAIN res.changes[cat]
    /\ "status" \in DOMAIN res.changes[cat][m]
    /\ res.changes[cat][m].status = Str("NO_COMPARISON_DATA")

\* C28: a get_market_changes whose writes succeed and after which one of the
\* enhanced datasets holds only the row just written (the first call ever
\* included) succeeds, has persisted the snapshot in both datasets and gives
\* every collected metric the status NO_COMPARISON_DATA.
C28_FirstCallIsAllGaps ==
  (/\ res.op = "get_market_changes"
   /\ res.fault = "none"
   /\ \E d \in EnhancedFiles : Len(files[d].rows) = 1)
  => /\ res.ok
     /\ \A d \in EnhancedFiles : \E i \in 1..Len(files[d].rows) :
          files[d].rows[i].date = DateOf(res.ts) /\ files[d].rows[i].ts = res.ts
     /\ AllNoComparisonData

\* global_indicators holds only the row just written while basic_indicators
\* holds an older row as well, and the exchange rates are gaps
C28_Witness ==
  /\ res.op = "get_market_changes"
  /\ res.ok
  /\ Len(files["global_indicators"].rows) = 1
  /\ Len(files["basic_indicators"].rows) = 2
  /\ res.changes["exchange_rates"]["USD/KRW"].status = Str("NO_COMPARISON_DATA")
  /\ res.changes["derived_indicators"] # <<>>

\* the baseline of dataset d in the answer of get_market_changes
BaselineOf(d) == IF d = "basic_indicators" THEN res.latest_basic ELSE res.latest_global

\* the stored rows of dataset d of a date before the date of the answer
EarlierRows(d) ==
  {i \in 1..Len(files[d].rows) : files[d].rows[i].date < DateOf(res.ts)}

\* C27 (as stated): when the date of the current snapshot is not earlier than
\* any stored date, the baseline of get_market_changes is the stored row of
\* the most recent date strictly before the current date, in each enhanced
\* dataset; a snapshot of the current date is never the baseline.
C27_BaselineIsLatestEarlierRow ==
  (res.op = "get_market_changes" /\ res.ok) =>
    \A d \in EnhancedFiles :
      (/\ \A i \in 1..Len(files[d].rows) : files[d].rows[i].date <= DateOf(res.ts)
       /\ EarlierRows(d) # {})
      => \E i \in EarlierRows(d) :
           /\ \A j \in EarlierRows(d) : files[d].rows[j].date <= files[d].rows[i].date
           /\ BaselineOf(d) = RowDict(files[d], i)

\* the entries of market_status.significant_changes of the answer
SignificantEntries ==
  IF "significant_changes" \in DOMAIN res.market_status
  THEN {res.market_status.significant_changes[i] :
          i \in 1..Len(res.market_status.significant_changes)}
  ELSE {}

\* no bond metric is among the significant changes
NoBondIsSignificant == \A e \in SignificantEntries : e.category # "bonds"

\* every metric outside the bonds whose |change_pct| is at least 2.0 is
\* among the significant changes
LargeMovesAreSignificant ==
  \A cat \in DOMAIN res.changes \ {"bonds"} : \A m \in DOMAIN res.changes[cat] :
    (/\ "change_pct" \in DOMAIN res.changes[cat][m]
     /\ IsNum(res.changes[cat][m].change_pct)
     /\ Abs(res.changes[cat][m].change_pct.n) >= 2 * Scale)
    => \E e \in SignificantEntries :
         /\ e.category = cat
         /\ e.item = m
         /\ e.change_pct = res.changes[cat][m].change_pct

TypeOK ==
  /\ svc \in {"market", "enhanced", "selected", "changes", "direction", "significant",
              "derived", "risk", "race"}
  /\ nops \in 0..MaxOps
  /\ \A d \in Datasets : \A i \in 1..Len(files[d].rows) :
       DOMAIN files[d].rows[i].c = files[d].cols

====
